---- MODULE Spec2Model ----
(***************************************************************************)
(* Sentiment pipeline: the dedup-upsert writer of data_processing.py and   *)
(* the aggregation / rollup script sentiment_analysis.py, over one shared  *)
(* MongoDB collection "processed_sentiment_data".                          *)
(***************************************************************************)
EXTENDS Integers, Sequences, FiniteSets, TLC

\* ------------------------------------------------------------------ bounds
\* Longest input the writer is given.
MaxLen == 3
\* Number of times data_processing.py is run against the same source.
MaxRuns == 2
\* data_processing.py:135 sets batch_size = 1000; the model scales it down so
\* that an input of MaxLen records spans more than one batch.
batch_size == 2
\* Largest count of one sentiment label in a tally handed to the calculator.
MaxCount == 1
\* Longest list of rows handed to process_aggregation_results.
MaxRows == 2

\* ------------------------------------------------------------- input space
\* Cleaned source rows (text and sentiment present) the runs draw from.
Rows ==
  { [textID |-> "t1", text |-> "good", sentiment |-> "positive",
     Time_of_Tweet |-> "morning", Age_of_User |-> "21-30"],
    [textID |-> "t1", text |-> "bad", sentiment |-> "negative",
     Time_of_Tweet |-> "night", Age_of_User |-> "21-30"],
    [textID |-> "t2", text |-> "good", sentiment |-> "positive",
     Time_of_Tweet |-> "morning", Age_of_User |-> "80+"] }

\* A field without a value (None in Python, null in Spark).
Null == "<null>"

\* Source rows the cleaning step has something to decide on.
RawRows ==
  Rows \cup
  { [textID |-> "t2", text |-> Null, sentiment |-> "negative",
     Time_of_Tweet |-> "noon", Age_of_User |-> "31-45"],
    [textID |-> "t2", text |-> "", sentiment |-> "neutral",
     Time_of_Tweet |-> "noon", Age_of_User |-> "31-45"],
    [textID |-> "t1", text |-> "Good ", sentiment |-> Null,
     Time_of_Tweet |-> "night", Age_of_User |-> "70-100"],
    [textID |-> "t2", text |-> " ", sentiment |-> "",
     Time_of_Tweet |-> Null, Age_of_User |-> " 21-30"] }

TextIDs == {r.textID : r \in RawRows}

Min(a, b) == IF a < b THEN a ELSE b

Inputs == UNION {[1..n -> Rows] : n \in 0..MaxLen}

RawInputs == UNION {[1..n -> RawRows] : n \in 0..MaxLen}

VARIABLES
  \* data_processing.py
  data,               \* the documents of collection_1, as find() lists them
  df,                 \* cleaned source rows, in collect() order
  processed_records,  \* records with processed_timestamp
  store,              \* documents of processed_sentiment_data
  wpc,                \* position of the writer script
  i,                  \* loop variable of the batch loop (0-based offset)
  upsert_count, update_count, error_count,
  unchanged_count,    \* upserts bulk_write matched without modifying
  index_requests,     \* the create_index calls made in this run, in order
  create_index_raises,\* the call the collection answers with an error, or 0
  run,                \* which execution of the script this is
  \* history of the writer, for stating the properties
  prev_store,         \* store when the previous run ended
  prev_errors,        \* error_count when the previous run ended
  last_applied,       \* per textID, the record of the last upsert applied
  submitted,          \* batch numbers passed to bulk_write in this run
  failed,             \* batch numbers whose bulk_write raised in this run
  \* sentiment_analysis.py (module level)
  apc,                \* position of the analysis script
  time_period_data, time_table, time_stats, peaks,
  age_data, age_table, age_stats, age_peaks,
  age_time_data,
  reported,           \* the sections that ran to their end in this run
  \* a call of process_aggregation_results
  fpc, results, data_dict,
  \* visualization.py
  dpc,                \* which callback of the dashboard fires next
  sentiment_store,    \* the data of dcc.Store "sentiment-store"
  figures,            \* the value update_figures returned last
  \* two executions of data_processing.py writing at once
  batches,            \* per execution, the batch it passed to bulk_write
  inflight,           \* per execution, the requests not yet performed
  raised              \* the executions whose bulk_write raised

wvars == <<data, df, processed_records, store, wpc, i, upsert_count, update_count,
           error_count, unchanged_count, index_requests,
           create_index_raises, run, prev_store, prev_errors, last_applied,
           submitted, failed>>

avars == <<apc, time_period_data, time_table, time_stats, peaks,
           age_data, age_table, age_stats, age_peaks, age_time_data, reported>>

fvars == <<fpc, results, data_dict>>

dvars == <<dpc, sentiment_store, figures>>

cvars == <<batches, inflight, raised>>

vars == <<wvars, avars, fvars, dvars, cvars>>

NoRecord == [textID |-> "none"]

\* ------------------------------------------------- binary64 arithmetic
\* Python's float is IEEE 754 binary64.  A float is kept as m * 2^e with the
\* 53-bit significand m held as a little-endian sequence of 15-bit limbs
\* (2^52 <= m < 2^53), zero as the empty significand.  Only the operations
\* the script uses on non-negative values are defined, each rounding to
\* nearest, ties to even.
Base == 2^15

Pow2(n) == 2^n

RECURSIVE Norm(_)
Norm(x) ==
  IF x = <<>> THEN <<>>
  ELSE IF x[Len(x)] = 0 THEN Norm(SubSeq(x, 1, Len(x) - 1))
  ELSE x

RECURSIVE MulSmall(_, _, _)
MulSmall(x, k, carry) ==
  IF x = <<>>
  THEN IF carry = 0 THEN <<>>
       ELSE <<carry % Base>> \o MulSmall(<<>>, k, carry \div Base)
  ELSE LET v == Head(x) * k + carry
       IN <<v % Base>> \o MulSmall(Tail(x), k, v \div Base)

RECURSIVE DivSmall(_, _)
DivSmall(x, d) ==
  IF x = <<>> THEN [q |-> <<>>, r |-> 0]
  ELSE LET hi == DivSmall(Tail(x), d)
           v == hi.r * Base + Head(x)
       IN [q |-> <<v \div d>> \o hi.q, r |-> v % d]

RECURSIVE BigAdd(_, _, _)
BigAdd(x, y, carry) ==
  IF x = <<>> /\ y = <<>>
  THEN IF carry = 0 THEN <<>> ELSE <<carry>>
  ELSE LET a == IF x = <<>> THEN 0 ELSE Head(x)
           b == IF y = <<>> THEN 0 ELSE Head(y)
           v == a + b + carry
       IN <<v % Base>> \o BigAdd(IF x = <<>> THEN <<>> ELSE Tail(x),
                                 IF y = <<>> THEN <<>> ELSE Tail(y),
                                 v \div Base)

RECURSIVE BitLenSmall(_)
BitLenSmall(n) == IF n = 0 THEN 0 ELSE 1 + BitLenSmall(n \div 2)

BitLen(x) ==
  IF x = <<>> THEN 0 ELSE 15 * (Len(x) - 1) + BitLenSmall(x[Len(x)])

\* x < y for normalised significands
RECURSIVE BigLess(_, _)
BigLess(x, y) ==
  IF Len(x) # Len(y) THEN Len(x) < Len(y)
  ELSE IF x = <<>> THEN FALSE
  ELSE IF x[Len(x)] # y[Len(y)] THEN x[Len(x)] < y[Len(y)]
  ELSE BigLess(SubSeq(x, 1, Len(x) - 1), SubSeq(y, 1, Len(y) - 1))

Zeros(n) == [k \in 1..n |-> 0]

ShiftLeft(x, n) == Norm(MulSmall(Zeros(n \div 15) \o x, Pow2(n % 15), 0))

\* floor(x / 2^n), and whether any of the bits shifted out was set
ShiftRight(x, n) ==
  LET limbs == n \div 15
      kept == SubSeq(x, limbs + 1, Len(x))
      d == DivSmall(kept, Pow2(n % 15))
  IN [q |-> Norm(d.q),
      sticky |-> d.r # 0 \/ \E k \in 1..Min(limbs, Len(x)) : x[k] # 0]

FZero == [m |-> <<>>, e |-> 0]

\* The float nearest to (x + f) * 2^e, where 0 <= f < 1 and inexact says f > 0.
Round53(x, inexact, e) ==
  LET len == BitLen(x)
  IN IF x = <<>> THEN FZero
     ELSE IF len <= 53
     THEN [m |-> ShiftLeft(x, 53 - len), e |-> e - (53 - len)]
     ELSE LET s == len - 53
              y == ShiftRight(x, s - 1)
              half == DivSmall(y.q, 2)
              q == Norm(half.q)
              up == half.r = 1 /\ (inexact \/ y.sticky \/ q[1] % 2 = 1)
              m0 == IF up THEN Norm(BigAdd(q, <<1>>, 0)) ELSE q
          IN IF BitLen(m0) > 53
             THEN [m |-> Norm(DivSmall(m0, 2).q), e |-> e + s + 1]
             ELSE [m |-> m0, e |-> e + s]

\* int / int (true division), 0 <= p < 2^15, 0 < t < 2^15
FDiv(p, t) ==
  IF p = 0 THEN FZero
  ELSE LET d == DivSmall(Zeros(5) \o <<p>>, t)
       IN Round53(Norm(d.q), d.r # 0, -75)

\* float * int, 0 <= k < 2^15
FMul(a, k) ==
  IF a.m = <<>> \/ k = 0 THEN FZero
  ELSE Round53(Norm(MulSmall(a.m, k, 0)), FALSE, a.e)

\* float + float
FAdd(a, b) ==
  IF a.m = <<>> THEN b
  ELSE IF b.m = <<>> THEN a
  ELSE LET e0 == Min(a.e, b.e)
       IN Round53(Norm(BigAdd(ShiftLeft(a.m, a.e - e0),
                              ShiftLeft(b.m, b.e - e0), 0)), FALSE, e0)

\* a < b
FLess(a, b) ==
  IF b.m = <<>> THEN FALSE
  ELSE IF a.m = <<>> THEN TRUE
  ELSE IF a.e # b.e THEN a.e < b.e
  ELSE BigLess(a.m, b.m)

\* the float of a small non-negative integer
FInt(n) == IF n = 0 THEN FZero ELSE Round53(<<n>>, FALSE, 0)

\* ---------------------------------------------------------------- writer
\* The clock in milliseconds, the precision the collection keeps of a
\* datetime: reading idx of run r.  Later runs read later times.
Now(r, idx) == (r - 1) * (MaxLen + 1) + idx

\* datetime.now() at the construction of record k, when the records at the
\* positions in same are built within the millisecond of the one before them.
Stamp(r, k, same) == Now(r, k - Cardinality({j \in same : j <= k}))

\* The record dict built per collected row.
Record(row, timestamp) ==
  [textID |-> row.textID, text |-> row.text, sentiment |-> row.sentiment,
   Time_of_Tweet |-> row.Time_of_Tweet, Age_of_User |-> row.Age_of_User,
   processed_timestamp |-> timestamp]

Matching(s, id) == {d \in s : d.textID = id}

\* Variant: an insert_one per record, with no filter on textID.
UpdateOneAlwaysInsert(s, record) ==
  [store |-> s \cup {record}, upserted |-> 1, modified |-> 0, matched |-> 0]

\* Variant: "$setOnInsert" in place of "$set", a matching document is kept.
UpdateOneKeepFirst(s, record) ==
  IF Matching(s, record.textID) = {}
  THEN [store |-> s \cup {record}, upserted |-> 1, modified |-> 0,
        matched |-> 0]
  ELSE [store |-> s, upserted |-> 0, modified |-> 0, matched |-> 1]

\* Variant: every matched document is counted as modified.
UpdateOneCountMatched(s, record) ==
  IF Matching(s, record.textID) = {}
  THEN [store |-> s \cup {record}, upserted |-> 1, modified |-> 0,
        matched |-> 0]
  ELSE LET old == CHOOSE d \in Matching(s, record.textID) : TRUE
       IN [store |-> (s \ {old}) \cup {record},
           upserted |-> 0, modified |-> 1, matched |-> 1]

\* UpdateOne({"textID": id}, {"$set": record}, upsert=True) applied to the
\* collection: the matching document gets every field of the record, and a
\* new document is inserted when none matches.  A matching document that
\* already holds every value of the record is matched but not modified.
UpdateOne(s, record) ==
  IF Matching(s, record.textID) = {}
  THEN [store |-> s \cup {record}, upserted |-> 1, modified |-> 0,
        matched |-> 0]
  ELSE LET old == CHOOSE d \in Matching(s, record.textID) : TRUE
       IN [store |-> (s \ {old}) \cup {record},
           upserted |-> 0,
           modified |-> IF old = record THEN 0 ELSE 1,
           matched |-> 1]

\* The server performs the requests of an ordered bulk_write serially, in
\* the order given.
RECURSIVE ApplyOps(_, _)
ApplyOps(s, ops) ==
  IF ops = <<>>
  THEN [store |-> s, upserted |-> 0, modified |-> 0, matched |-> 0]
  ELSE LET first == UpdateOne(s, Head(ops))
           rest == ApplyOps(first.store, Tail(ops))
       IN [store |-> rest.store,
           upserted |-> first.upserted + rest.upserted,
           modified |-> first.modified + rest.modified,
           matched |-> first.matched + rest.matched]

RECURSIVE LastApplied(_, _)
LastApplied(la, ops) ==
  IF ops = <<>> THEN la
  ELSE LastApplied([la EXCEPT ![Head(ops).textID] = Head(ops)], Tail(ops))

\* Variant: the slice bulk_operations[i:], not ended at i + batch_size.
BatchToEnd(ops, off) == SubSeq(ops, off + 1, Len(ops))

\* Variant: the slice bulk_operations[i:i + batch_size - 1].
BatchShort(ops, off) ==
  SubSeq(ops, off + 1, Min(off + batch_size - 1, Len(ops)))

\* bulk_operations[i:i + batch_size]
Batch(ops, off) == SubSeq(ops, off + 1, Min(off + batch_size, Len(ops)))

BatchNo(off) == (off \div batch_size) + 1

\* Column conditions of the filter, in SQL's three-valued logic: "T", "F",
\* or "N" when the outcome is null.
IsNotNull(v) == IF v = Null THEN "F" ELSE "T"

NotEqual(v, w) ==
  IF v = Null \/ w = Null THEN "N" ELSE IF v # w THEN "T" ELSE "F"

And3(a, b) ==
  IF a = "F" \/ b = "F" THEN "F"
  ELSE IF a = "N" \/ b = "N" THEN "N"
  ELSE "T"

\* Variant: the text is trimmed before it is compared with "".
KeptNonBlank(row) ==
  /\ row.text # Null
  /\ row.sentiment # Null
  /\ row.text \notin {"", " "}

\* The condition of df.filter(...) (lines 61-65): a row is kept when it
\* evaluates to true.
Kept(row) ==
  And3(And3(IsNotNull(row.text), IsNotNull(row.sentiment)),
       NotEqual(row.text, "")) = "T"

\* cleaned_df.collect(): the rows kept, in the order loaded.
RECURSIVE cleaned_df(_)
cleaned_df(rows) ==
  IF rows = <<>> THEN <<>>
  ELSE (IF Kept(Head(rows)) THEN <<Head(rows)>> ELSE <<>>)
         \o cleaned_df(Tail(rows))

\* The create_index calls of lines 89-95, in order.
create_index ==
  << [keys |-> <<"Time of Tweet">>, unique |-> FALSE],
     [keys |-> <<"sentiment">>, unique |-> FALSE],
     [keys |-> <<"Time of Tweet", "sentiment">>, unique |-> FALSE],
     [keys |-> <<"textID">>, unique |-> TRUE] >>

\* Lines 30-132: load, clean, collect, build the records and the operations.
\* The create_index calls are in one try block: either all four are made, or
\* one raises (the collection holds an index on the same keys with other
\* options, say) and the except clause of line 97 skips the calls after it.
\* The two scripts are run one at a time (data_processing.py ends by asking
\* for sentiment_analysis.py to be run): the writer steps only while the
\* analysis is not running, and the analysis starts only between writer runs.
Prepare ==
  /\ apc = "idle"
  /\ wpc = "start"
  /\ df' = cleaned_df(data)
  /\ \E same \in SUBSET (2..Len(df')) :
       processed_records' =
         [k \in 1..Len(df') |-> Record(df'[k], Stamp(run, k, same))]
  /\ upsert_count' = 0
  /\ update_count' = 0
  /\ error_count' = 0
  /\ unchanged_count' = 0
  /\ index_requests' =
       IF create_index_raises = 0 THEN create_index
       ELSE SubSeq(create_index, 1, create_index_raises)
  /\ i' = 0
  /\ submitted' = <<>>
  /\ failed' = {}
  /\ wpc' = "write"
  /\ UNCHANGED <<data, store, create_index_raises, run, prev_store,
                 prev_errors, last_applied>>
  /\ UNCHANGED <<avars, fvars>>
  /\ UNCHANGED dvars
  /\ UNCHANGED cvars

\* One iteration of the batch loop in which bulk_write returns.
BulkWriteOk ==
  /\ apc = "idle"
  /\ wpc = "write"
  /\ i < Len(processed_records)
  /\ LET batch == Batch(processed_records, i)
         result == ApplyOps(store, batch)
     IN /\ store' = result.store
        /\ upsert_count' = upsert_count + result.upserted
        /\ update_count' = update_count + result.modified
        /\ unchanged_count' =
             unchanged_count + (result.matched - result.modified)
        /\ last_applied' = LastApplied(last_applied, batch)
  /\ submitted' = Append(submitted, BatchNo(i))
  /\ i' = i + batch_size
  /\ UNCHANGED <<data, df, processed_records, wpc, error_count, index_requests,
                 create_index_raises, run, prev_store, prev_errors, failed>>
  /\ UNCHANGED <<avars, fvars>>
  /\ UNCHANGED dvars
  /\ UNCHANGED cvars

\* One iteration of the batch loop in which bulk_write raises: the request
\* at position k + 1 failed, the k requests before it were performed and
\* the remaining ones were aborted.
BulkWriteFail ==
  /\ apc = "idle"
  /\ wpc = "write"
  /\ i < Len(processed_records)
  /\ LET batch == Batch(processed_records, i)
     IN /\ \E k \in 0..(Len(batch) - 1) :
             /\ store' = ApplyOps(store, SubSeq(batch, 1, k)).store
             /\ last_applied' = LastApplied(last_applied, SubSeq(batch, 1, k))
        /\ error_count' = error_count + Len(batch)
  /\ submitted' = Append(submitted, BatchNo(i))
  /\ failed' = failed \cup {BatchNo(i)}
  /\ i' = i + batch_size
  /\ UNCHANGED <<data, df, processed_records, wpc, upsert_count, update_count,
                 unchanged_count, index_requests, create_index_raises, run,
                 prev_store, prev_errors>>
  /\ UNCHANGED <<avars, fvars>>
  /\ UNCHANGED dvars
  /\ UNCHANGED cvars

\* Lines 146-164: the loop is exhausted, the report is printed and the
\* process ends.
Finish ==
  /\ apc = "idle"
  /\ wpc = "write"
  /\ i >= Len(processed_records)
  /\ wpc' = "done"
  /\ index_requests' = <<>>
  /\ UNCHANGED <<data, df, processed_records, store, i, upsert_count, update_count,
                 error_count, unchanged_count, create_index_raises, run,
                 prev_store, prev_errors, last_applied, submitted, failed>>
  /\ UNCHANGED <<avars, fvars>>
  /\ UNCHANGED dvars
  /\ UNCHANGED cvars

\* The script is run again on the same source collection.
Rerun ==
  /\ apc = "idle"
  /\ wpc = "done"
  /\ run < MaxRuns
  /\ run' = run + 1
  /\ prev_store' = store
  /\ prev_errors' = error_count
  /\ wpc' = "start"
  /\ UNCHANGED <<data, df, processed_records, store, i, upsert_count, update_count,
                 error_count, unchanged_count, index_requests,
                 create_index_raises, last_applied, submitted, failed>>
  /\ UNCHANGED <<avars, fvars>>
  /\ UNCHANGED dvars
  /\ UNCHANGED cvars

\* ------------------------------------------------------ analysis script
\* Python's None.
None == [none |-> TRUE]

\* A dict in insertion order: its keys as a sequence, its values as a
\* function on them.
EmptyDict == [keys |-> <<>>, val |-> <<>>]

HasKey(d, k) == k \in DOMAIN d.val

Put(d, k, v) ==
  [keys |-> IF HasKey(d, k) THEN d.keys ELSE Append(d.keys, k),
   val |-> (k :> v) @@ d.val]

\* data_dict[k] of a defaultdict whose factory makes a defaultdict(int): a
\* missing key is inserted with an empty one.
Touch(d, k) == IF HasKey(d, k) THEN d ELSE Put(d, k, <<>>)

\* data_dict[k1][k2] = count
Put2(d, k1, k2, count) ==
  LET t == Touch(d, k1)
  IN Put(t, k1, (k2 :> count) @@ t.val[k1])

\* data_dict[k1][k2][k3] = count, three levels of defaultdict
Put3(d, k1, k2, k3, count) ==
  LET t == IF HasKey(d, k1) THEN d ELSE Put(d, k1, EmptyDict)
  IN Put(t, k1, Put2(t.val[k1], k2, k3, count))

\* Byte order of the strings the model uses, as "$sort" and sorted() see them.
Collation ==
  <<"0-30", "31-60", "61-100", "Noon", "Unknown", "mixed", "morning", "negative",
    "neutral", "night", "noon", "positive">>

Rank(str) == CHOOSE k \in 1..Len(Collation) : Collation[k] = str

\* get_age_group_mapping: the "$switch" of the pipelines
get_age_group_mapping(age) ==
  IF age \in {"0-20", "21-30"} THEN "0-30"
  ELSE IF age \in {"31-45", "46-60"} THEN "31-60"
  ELSE IF age \in {"60-70", "70-100"} THEN "61-100"
  ELSE "Unknown"

\* The "_id" of a group: its fields in the order the pipeline names them.
TimeKey(d) ==
  << <<"time_period", d.Time_of_Tweet>>, <<"sentiment", d.sentiment>> >>

AgeKey(d) ==
  << <<"age", get_age_group_mapping(d.Age_of_User)>>,
     <<"sentiment", d.sentiment>> >>

AgeTimeKey(d) ==
  << <<"age_group", get_age_group_mapping(d.Age_of_User)>>,
     <<"time_period", d.Time_of_Tweet>>, <<"sentiment", d.sentiment>> >>

\* The group id the pipeline of a scheme computes for a document.
GroupKey(scheme, d) ==
  IF scheme = "time" THEN TimeKey(d)
  ELSE IF scheme = "age" THEN AgeKey(d)
  ELSE AgeTimeKey(d)

\* Variant: "$first" in place of "$sum", every group reported with count 1.
GroupUncounted(s, scheme) ==
  {[id |-> k, count |-> 1] : k \in {GroupKey(scheme, d) : d \in s}}

\* "$group" with {"$sum": 1}: one row per distinct key, counting its documents.
Group(s, scheme) ==
  {[id |-> k,
    count |-> Cardinality({d \in s : GroupKey(scheme, d) = k})] :
     k \in {GroupKey(scheme, d) : d \in s}}

\* Ascending on the key fields, in order.
RECURSIVE KeyLess(_, _)
KeyLess(a, b) ==
  IF a = <<>> \/ b = <<>> THEN FALSE
  ELSE IF Head(a)[2] # Head(b)[2] THEN Rank(Head(a)[2]) < Rank(Head(b)[2])
  ELSE KeyLess(Tail(a), Tail(b))

\* "$sort"
RECURSIVE Sort(_)
Sort(rows) ==
  IF rows = {} THEN <<>>
  ELSE LET least == CHOOSE r \in rows :
                      \A o \in rows : ~KeyLess(o.id, r.id)
       IN <<least>> \o Sort(rows \ {least})

\* processed_collection.aggregate(pipeline), as a list
Aggregate(s, scheme) == Sort(Group(s, scheme))

\* result["_id"][name]
Field(keys, name) ==
  LET k == CHOOSE j \in 1..Len(keys) : keys[j][1] = name IN keys[k][2]

HasField(keys, name) == \E j \in 1..Len(keys) : keys[j][1] = name

\* The module-level folds of the two-key schemes (lines 116-122, 175-181).
RECURSIVE Fold2(_, _, _)
Fold2(d, rows, primary) ==
  IF rows = <<>> THEN d
  ELSE Fold2(Put2(d, Field(Head(rows).id, primary),
                  Field(Head(rows).id, "sentiment"), Head(rows).count),
             Tail(rows), primary)

\* The module-level fold of the three-key scheme (lines 247-254).
RECURSIVE Fold3(_, _)
Fold3(d, rows) ==
  IF rows = <<>> THEN d
  ELSE Fold3(Put3(d, Field(Head(rows).id, "age_group"),
                  Field(Head(rows).id, "time_period"),
                  Field(Head(rows).id, "sentiment"), Head(rows).count),
             Tail(rows))

\* sentiments_dict.get(label, 0)
Get(d, label) == IF label \in DOMAIN d THEN d[label] ELSE 0

Max1(n) == IF n < 1 THEN 1 ELSE n

\* Variant: "if total >= 0", a tally without counts gets a row of zeros.
calculate_sentiment_stats_zero_rows(sentiments_dict) ==
  LET pos_count == Get(sentiments_dict, "positive")
      neg_count == Get(sentiments_dict, "negative")
      neu_count == Get(sentiments_dict, "neutral")
      total == pos_count + neg_count + neu_count
  IN IF total >= 0
     THEN [pos_count |-> pos_count, neg_count |-> neg_count,
           neu_count |-> neu_count, total |-> total,
           pos_pct |-> FMul(FDiv(pos_count, Max1(total)), 100),
           neg_pct |-> FMul(FDiv(neg_count, Max1(total)), 100),
           neu_pct |-> FMul(FDiv(neu_count, Max1(total)), 100)]
     ELSE None

\* Variant: the neutral count left out of the total.
calculate_sentiment_stats_two_labels(sentiments_dict) ==
  LET pos_count == Get(sentiments_dict, "positive")
      neg_count == Get(sentiments_dict, "negative")
      neu_count == Get(sentiments_dict, "neutral")
      total == pos_count + neg_count
  IN IF total > 0
     THEN [pos_count |-> pos_count, neg_count |-> neg_count,
           neu_count |-> neu_count, total |-> total,
           pos_pct |-> FMul(FDiv(pos_count, total), 100),
           neg_pct |-> FMul(FDiv(neg_count, total), 100),
           neu_pct |-> FMul(FDiv(neu_count, total), 100)]
     ELSE None

\* calculate_sentiment_stats: None for a total of 0, else the counts, the
\* total and the percentages (count / total) * 100 as floats.
calculate_sentiment_stats(sentiments_dict) ==
  LET pos_count == Get(sentiments_dict, "positive")
      neg_count == Get(sentiments_dict, "negative")
      neu_count == Get(sentiments_dict, "neutral")
      total == pos_count + neg_count + neu_count
  IN IF total > 0
     THEN [pos_count |-> pos_count, neg_count |-> neg_count,
           neu_count |-> neu_count, total |-> total,
           pos_pct |-> FMul(FDiv(pos_count, total), 100),
           neg_pct |-> FMul(FDiv(neg_count, total), 100),
           neu_pct |-> FMul(FDiv(neu_count, total), 100)]
     ELSE None

\* sorted(keys)
RECURSIVE Sorted(_)
Sorted(keys) ==
  IF keys = {} THEN <<>>
  ELSE LET least == CHOOSE k \in keys : \A o \in keys : Rank(k) <= Rank(o)
       IN <<least>> \o Sorted(keys \ {least})

Range(seq) == {seq[k] : k \in 1..Len(seq)}

\* print_sentiment_table: the rows it prints, in order.
RECURSIVE TableRows(_, _)
TableRows(d, keys) ==
  IF keys = <<>> THEN <<>>
  ELSE LET stats == calculate_sentiment_stats(d.val[Head(keys)])
       IN (IF stats # None
           THEN <<[key |-> Head(keys), stats |-> stats]>> ELSE <<>>)
          \o TableRows(d, Tail(keys))

print_sentiment_table(d) == TableRows(d, Sorted(Range(d.keys)))

\* The loops building time_stats (lines 127-132) and age_stats (186-191):
\* the stats of each key, in the dict's order, tagged with the key.
RECURSIVE StatsList(_, _, _)
StatsList(d, keys, tag) ==
  IF keys = <<>> THEN <<>>
  ELSE LET stats == calculate_sentiment_stats(d.val[Head(keys)])
       IN (IF stats # None
           THEN <<(tag :> Head(keys)) @@ stats>> ELSE <<>>)
          \o StatsList(d, Tail(keys), tag)

\* x[field] > y[field], as max() compares the keys
GreaterBy(x, y, field) ==
  IF field = "total" THEN x.total > y.total ELSE FLess(y[field], x[field])

GreaterOrEqualBy(x, y, field) ==
  IF field = "total" THEN x.total >= y.total ELSE ~FLess(x[field], y[field])

\* max(stats_list, key=lambda x: x[field]): the first maximal element
RECURSIVE MaxLoop(_, _, _, _)
MaxLoop(list, k, best, field) ==
  IF k > Len(list) THEN best
  ELSE MaxLoop(list, k + 1,
               IF GreaterBy(list[k], best, field) THEN list[k] ELSE best,
               field)

\* Variant: ">=" in the comparison, the last maximal element is kept.
RECURSIVE MaxLoopLast(_, _, _, _)
MaxLoopLast(list, k, best, field) ==
  IF k > Len(list) THEN best
  ELSE MaxLoopLast(list, k + 1,
                   IF GreaterOrEqualBy(list[k], best, field)
                   THEN list[k] ELSE best,
                   field)

MaxByLast(list, field) == MaxLoopLast(list, 2, list[1], field)

MaxBy(list, field) == MaxLoop(list, 2, list[1], field)

find_peaks(stats_list) ==
  IF stats_list = <<>> THEN None
  ELSE [most_positive |-> MaxBy(stats_list, "pos_pct"),
        most_negative |-> MaxBy(stats_list, "neg_pct"),
        most_neutral |-> MaxBy(stats_list, "neu_pct"),
        most_active |-> MaxBy(stats_list, "total")]

\* Lines 100-122: the by-time query returns and its rows are folded.
TimeAggregate ==
  /\ apc = "idle"
  /\ wpc # "write"
  /\ time_period_data' = Fold2(EmptyDict, Aggregate(store, "time"),
                               "time_period")
  /\ apc' = "time_report"
  /\ UNCHANGED <<time_table, time_stats, peaks, age_data, age_table,
                 age_stats, age_peaks, age_time_data, reported>>
  /\ UNCHANGED <<wvars, fvars>>
  /\ UNCHANGED dvars
  /\ UNCHANGED cvars

\* Line 115 raises: nothing catches it, the interpreter exits.
TimeAggregateFail ==
  /\ apc = "idle"
  /\ wpc # "write"
  /\ apc' = "crashed"
  /\ UNCHANGED <<time_period_data, time_table, time_stats, peaks, age_data,
                 age_table, age_stats, age_peaks, age_time_data, reported>>
  /\ UNCHANGED <<wvars, fvars>>
  /\ UNCHANGED dvars
  /\ UNCHANGED cvars

\* Lines 124-145: the table, the stats list and the peaks of the time periods.
TimeReport ==
  /\ apc = "time_report"
  /\ time_table' = print_sentiment_table(time_period_data)
  /\ time_stats' = StatsList(time_period_data, time_period_data.keys, "period")
  /\ peaks' = find_peaks(time_stats')
  /\ reported' = reported \cup {"time"}
  /\ apc' = "age"
  /\ UNCHANGED <<time_period_data, age_data, age_table, age_stats, age_peaks,
                 age_time_data>>
  /\ UNCHANGED <<wvars, fvars>>
  /\ UNCHANGED dvars
  /\ UNCHANGED cvars

\* Lines 154-181.
AgeAggregate ==
  /\ apc = "age"
  /\ age_data' = Fold2(EmptyDict, Aggregate(store, "age"), "age")
  /\ apc' = "age_report"
  /\ UNCHANGED <<time_period_data, time_table, time_stats, peaks, age_table,
                 age_stats, age_peaks, age_time_data, reported>>
  /\ UNCHANGED <<wvars, fvars>>
  /\ UNCHANGED dvars
  /\ UNCHANGED cvars

\* Line 174 raises.
AgeAggregateFail ==
  /\ apc = "age"
  /\ apc' = "crashed"
  /\ UNCHANGED <<time_period_data, time_table, time_stats, peaks, age_data,
                 age_table, age_stats, age_peaks, age_time_data, reported>>
  /\ UNCHANGED <<wvars, fvars>>
  /\ UNCHANGED dvars
  /\ UNCHANGED cvars

\* Lines 183-216.
AgeReport ==
  /\ apc = "age_report"
  /\ age_table' = print_sentiment_table(age_data)
  /\ age_stats' = StatsList(age_data, age_data.keys, "age_group")
  /\ age_peaks' = find_peaks(age_stats')
  /\ reported' = reported \cup {"age"}
  /\ apc' = "age_time"
  /\ UNCHANGED <<time_period_data, time_table, time_stats, peaks, age_data,
                 age_time_data>>
  /\ UNCHANGED <<wvars, fvars>>
  /\ UNCHANGED dvars
  /\ UNCHANGED cvars

\* Lines 225-289: the three-key query, its fold and its printed tables.
AgeTimeAggregate ==
  /\ apc = "age_time"
  /\ age_time_data' = Fold3(EmptyDict, Aggregate(store, "age_time"))
  /\ reported' = reported \cup {"age_time"}
  /\ apc' = "done"
  /\ UNCHANGED <<time_period_data, time_table, time_stats, peaks, age_data,
                 age_table, age_stats, age_peaks>>
  /\ UNCHANGED <<wvars, fvars>>
  /\ UNCHANGED dvars
  /\ UNCHANGED cvars

\* Line 246 raises.
AgeTimeAggregateFail ==
  /\ apc = "age_time"
  /\ apc' = "crashed"
  /\ UNCHANGED <<time_period_data, time_table, time_stats, peaks, age_data,
                 age_table, age_stats, age_peaks, age_time_data, reported>>
  /\ UNCHANGED <<wvars, fvars>>
  /\ UNCHANGED dvars
  /\ UNCHANGED cvars

\* The process has ended; its module-level names are gone.
AnalysisExit ==
  /\ apc \in {"done", "crashed"}
  /\ apc' = "idle"
  /\ time_period_data' = EmptyDict
  /\ time_table' = <<>>
  /\ time_stats' = <<>>
  /\ peaks' = None
  /\ age_data' = EmptyDict
  /\ age_table' = <<>>
  /\ age_stats' = <<>>
  /\ age_peaks' = None
  /\ age_time_data' = EmptyDict
  /\ reported' = {}
  /\ UNCHANGED <<wvars, fvars>>
  /\ UNCHANGED dvars
  /\ UNCHANGED cvars

\* ---------------------------------------- process_aggregation_results
KeyError == [error |-> "KeyError"]

TypeError == [error |-> "TypeError"]

Raised(d) == "error" \in DOMAIN d

\* The loop of process_aggregation_results over the rows left, data_dict
\* being the defaultdict(lambda: defaultdict(int)) built so far.
RECURSIVE ProcessRows(_, _)
ProcessRows(d, rows) ==
  IF rows = <<>> THEN d
  ELSE LET keys == Head(rows).id
           count == Head(rows).count
       IN IF Len(keys) = 2
          THEN \* primary_key = list(keys.values())[0]; keys["sentiment"]
               IF ~HasField(keys, "sentiment") THEN KeyError
               ELSE ProcessRows(Put2(d, keys[1][2], Field(keys, "sentiment"),
                                     count),
                                Tail(rows))
          ELSE IF Len(keys) = 3
          THEN IF \/ ~HasField(keys, "age_group")
                  \/ ~HasField(keys, "time_period")
                  \/ ~HasField(keys, "sentiment")
               THEN KeyError
               ELSE \* data_dict[age_group] is a defaultdict(int), made by the
                    \* factory when missing, so the isinstance test of line
                    \* 74 never replaces it; data_dict[age_group][time_period]
                    \* is then an int (0 when missing), and assigning
                    \* [sentiment] on an int raises.
                    TypeError
          ELSE \* neither branch: the row is skipped
               ProcessRows(d, Tail(rows))

process_aggregation_results(rows) == ProcessRows(EmptyDict, rows)

\* A call of process_aggregation_results(results).
CallProcessAggregationResults ==
  /\ fpc = "call"
  /\ data_dict' = process_aggregation_results(results)
  /\ fpc' = "returned"
  /\ UNCHANGED results
  /\ UNCHANGED <<wvars, avars>>
  /\ UNCHANGED dvars
  /\ UNCHANGED cvars

\* ------------------------------------------------------- specifications
\* --------------------------------------------------- visualization.py
\* str.lower and str.strip, on the strings that occur as field values.
Lower(str) == IF str = "Noon" THEN "noon" ELSE str

Strip(str) == IF str = " 21-30" THEN "21-30" ELSE str

\* Lines 63-70.
age_mapping ==
  [a \in {"0-20", "21-30", "31-45", "46-60", "60-70", "70-100"} |->
     IF a \in {"0-20", "21-30"} THEN "0-30"
     ELSE IF a \in {"31-45", "46-60"} THEN "31-60"
     ELSE "61-100"]

\* Variant of line 71: an unmapped bracket filled with "Unknown".
MapAgeUnknown(age) ==
  IF age \in DOMAIN age_mapping THEN age_mapping[age] ELSE "Unknown"

\* Line 71: Series.map leaves NaN where the dict has no key, and fillna puts
\* the row's own "Age of User" there.
MapAge(age) == IF age \in DOMAIN age_mapping THEN age_mapping[age] ELSE age

\* Lines 86-104 for documents without compound, p_positive and p_negative.
Intensity(sn) ==
  IF Lower(sn) = "positive" THEN 1 ELSE IF Lower(sn) = "negative" THEN -1 ELSE 0

\* Clock readings that fall into one second.
TicksPerSecond == 2

\* Line 400: the timestamp as text, to the second.
strftime(ts) == ts \div TicksPerSecond

\* fetch_dataframe followed by lines 396-403 of refresh_data: the records of
\* the data frame.  The projection drops "text"; dropna drops the rows
\* lacking one of the three fields.
fetch_dataframe(s) ==
  {[textID |-> d.textID,
    sentiment |-> Lower(d.sentiment),
    Time_of_Tweet |-> d.Time_of_Tweet,
    Age_of_User |-> d.Age_of_User,
    processed_timestamp |-> strftime(d.processed_timestamp),
    time_period |-> Lower(Strip(d.Time_of_Tweet)),
    age_group |-> MapAge(d.Age_of_User),
    sentiment_intensity |-> Intensity(d.sentiment)] :
     d \in {x \in s : /\ x.sentiment # Null
                      /\ x.Time_of_Tweet # Null
                      /\ x.Age_of_User # Null}}

\* Lines 407-413.
Outputs == <<"overall", "age", "time", "bubble", "trend", "throughput">>

\* "if not data": None and the empty list.
NotData(d) == d = None \/ d.records = {}

\* Lines 416-429: the tuple returned, each figure named by its builder.
update_figures(d) ==
  IF NotData(d)
  THEN <<"empty_figure", "empty_figure", "empty_figure", "empty_figure",
         "empty_figure", "empty_figure", "empty_figure">>
  ELSE <<"overall_sentiment", "sentiment_by_age", "sentiment_by_time",
         "age_time_intensity_heatmap", "sentiment_trend_by_age",
         "throughput_figure">>

\* Lines 393-403: the interval fires and the query returns.
RefreshData ==
  /\ dpc = "refresh"
  /\ sentiment_store' = [records |-> fetch_dataframe(store)]
  /\ dpc' = "update"
  /\ UNCHANGED figures
  /\ UNCHANGED <<wvars, avars, fvars>>
  /\ UNCHANGED cvars

\* Lines 51-53: the query raises PyMongoError, the frame has no rows.
RefreshDataFail ==
  /\ dpc = "refresh"
  /\ sentiment_store' = [records |-> {}]
  /\ dpc' = "update"
  /\ UNCHANGED figures
  /\ UNCHANGED <<wvars, avars, fvars>>
  /\ UNCHANGED cvars

\* Lines 414-429: the store's data changed, update_figures runs.
UpdateFigures ==
  /\ dpc = "update"
  /\ figures' = update_figures(sentiment_store)
  /\ dpc' = "refresh"
  /\ UNCHANGED sentiment_store
  /\ UNCHANGED <<wvars, avars, fvars>>
  /\ UNCHANGED cvars

\* Line 351: the store starts without data; no callback has returned yet.
InitDash ==
  /\ dpc = "refresh"
  /\ sentiment_store = None
  /\ figures = <<>>

\* ------------------------- executions of data_processing.py in parallel
\* Nothing keeps the script from being started while another execution of
\* it is in its batch loop; their bulk_write calls are then in flight at the
\* same time, and the server performs the upserts of the two one at a time.
Submitters == {1, 2}

\* The batch execution p submits for the rows it collected.
BatchOf(p, rows) ==
  Batch([k \in 1..Len(rows) |-> Record(rows[k], Now(p + 1, k))], 0)

\* The server performs the next request of p's bulk_write.
SubmitOp(p) ==
  /\ inflight[p] # <<>>
  /\ store' = UpdateOne(store, Head(inflight[p])).store
  /\ last_applied' = LastApplied(last_applied, <<Head(inflight[p])>>)
  /\ inflight' = [inflight EXCEPT ![p] = Tail(@)]
  /\ UNCHANGED <<batches, raised>>
  /\ UNCHANGED <<data, df, processed_records, wpc, i, upsert_count,
                 update_count, error_count, unchanged_count, index_requests,
                 create_index_raises, run, prev_store, prev_errors,
                 submitted, failed>>
  /\ UNCHANGED <<avars, fvars, dvars>>

\* p's bulk_write raises: the requests not yet performed are dropped.
BulkWriteRaises(p) ==
  /\ inflight[p] # <<>>
  /\ inflight' = [inflight EXCEPT ![p] = <<>>]
  /\ raised' = raised \cup {p}
  /\ UNCHANGED batches
  /\ UNCHANGED <<wvars, avars, fvars, dvars>>

InitNoSubmitters ==
  /\ batches = [p \in Submitters |-> <<>>]
  /\ inflight = [p \in Submitters |-> <<>>]
  /\ raised = {}

InitWriter ==
  /\ df = <<>>
  /\ processed_records = <<>>
  /\ store = {}
  /\ wpc = "start"
  /\ i = 0
  /\ upsert_count = 0
  /\ update_count = 0
  /\ error_count = 0
  /\ unchanged_count = 0
  /\ index_requests = <<>>
  /\ create_index_raises = 0
  /\ run = 1
  /\ prev_store = {}
  /\ prev_errors = 0
  /\ last_applied = [id \in TextIDs |-> NoRecord]
  /\ submitted = <<>>
  /\ failed = {}

InitAnalysis ==
  /\ time_table = <<>>
  /\ time_stats = <<>>
  /\ peaks = None
  /\ age_data = EmptyDict
  /\ age_table = <<>>
  /\ age_stats = <<>>
  /\ age_peaks = None
  /\ age_time_data = EmptyDict
  /\ reported = {}

InitFold ==
  /\ fpc = "idle"
  /\ results = <<>>
  /\ data_dict = EmptyDict

\* The two scripts against one collection.
Init ==
  /\ data \in Inputs
  /\ InitWriter
  /\ apc = "idle"
  /\ time_period_data = EmptyDict
  /\ InitAnalysis
  /\ InitFold
  /\ InitDash
  /\ InitNoSubmitters

Next ==
  \/ Prepare
  \/ BulkWriteOk
  \/ BulkWriteFail
  \/ Finish
  \/ Rerun
  \/ TimeAggregate
  \/ TimeAggregateFail
  \/ TimeReport
  \/ AgeAggregate
  \/ AgeAggregateFail
  \/ AgeReport
  \/ AgeTimeAggregate
  \/ AgeTimeAggregateFail
  \/ AnalysisExit

Spec == Init /\ [][Next]_vars

\* data_processing.py on its own, run and run again.
NextWriter ==
  \/ Prepare
  \/ BulkWriteOk
  \/ BulkWriteFail
  \/ Finish
  \/ Rerun

SpecWriter == Init /\ [][NextWriter]_vars

\* The writer against a collection on which a create_index call may raise.
InitIndexes ==
  /\ data \in Inputs
  /\ df = <<>>
  /\ processed_records = <<>>
  /\ store = {}
  /\ wpc = "start"
  /\ i = 0
  /\ upsert_count = 0
  /\ update_count = 0
  /\ error_count = 0
  /\ unchanged_count = 0
  /\ index_requests = <<>>
  /\ create_index_raises \in 0..Len(create_index)
  /\ run = 1
  /\ prev_store = {}
  /\ prev_errors = 0
  /\ last_applied = [id \in TextIDs |-> NoRecord]
  /\ submitted = <<>>
  /\ failed = {}
  /\ apc = "idle"
  /\ time_period_data = EmptyDict
  /\ InitAnalysis
  /\ InitFold
  /\ InitDash
  /\ InitNoSubmitters

SpecIndexes == InitIndexes /\ [][NextWriter]_vars

\* One run of the writer on source rows with missing and empty values.
InitClean ==
  /\ data \in RawInputs
  /\ InitWriter
  /\ apc = "idle"
  /\ time_period_data = EmptyDict
  /\ InitAnalysis
  /\ InitFold
  /\ InitDash
  /\ InitNoSubmitters

NextClean ==
  \/ Prepare
  \/ BulkWriteOk
  \/ BulkWriteFail
  \/ Finish

SpecClean == InitClean /\ [][NextClean]_vars

\* The two readers against a collection the writer has left behind.
ViewRows ==
  {[textID |-> "t1", text |-> "good", sentiment |-> "positive",
    Time_of_Tweet |-> "morning", Age_of_User |-> "0-20"],
   [textID |-> "t2", text |-> "bad", sentiment |-> "negative",
    Time_of_Tweet |-> "Noon", Age_of_User |-> "46-60"],
   [textID |-> "t3", text |-> "good", sentiment |-> "positive",
    Time_of_Tweet |-> "night", Age_of_User |-> "70-100"],
   [textID |-> "t4", text |-> "good", sentiment |-> "positive",
    Time_of_Tweet |-> "night", Age_of_User |-> "80+"],
   [textID |-> "t5", text |-> "bad", sentiment |-> "negative",
    Time_of_Tweet |-> "morning", Age_of_User |-> " 21-30"],
   [textID |-> "t6", text |-> "bad", sentiment |-> "positive",
    Time_of_Tweet |-> "night", Age_of_User |-> Null]}

ViewDocs == {Record(row, Now(1, 1)) : row \in {r \in ViewRows : Kept(r)}}

InitViews ==
  /\ data = <<>>
  /\ df = <<>>
  /\ processed_records = <<>>
  /\ store \in SUBSET ViewDocs
  /\ wpc = "start"
  /\ i = 0
  /\ upsert_count = 0
  /\ update_count = 0
  /\ error_count = 0
  /\ unchanged_count = 0
  /\ index_requests = <<>>
  /\ create_index_raises = 0
  /\ run = 1
  /\ prev_store = {}
  /\ prev_errors = 0
  /\ last_applied = [id \in TextIDs |-> NoRecord]
  /\ submitted = <<>>
  /\ failed = {}
  /\ apc = "idle"
  /\ time_period_data = EmptyDict
  /\ InitAnalysis
  /\ InitFold
  /\ InitDash
  /\ InitNoSubmitters

NextViews ==
  \/ TimeAggregate
  \/ TimeAggregateFail
  \/ TimeReport
  \/ AgeAggregate
  \/ AgeAggregateFail
  \/ AgeReport
  \/ AgeTimeAggregate
  \/ AgeTimeAggregateFail
  \/ AnalysisExit
  \/ RefreshData
  \/ RefreshDataFail
  \/ UpdateFigures

SpecViews == InitViews /\ [][NextViews]_vars

\* Two executions, each with a batch in flight, against a collection an
\* earlier execution may have written.
EarlierStores ==
  {{}} \cup {ApplyOps({}, <<Record(row, Now(1, 1))>>).store : row \in Rows}

InitConcurrent ==
  /\ data = <<>>
  /\ df = <<>>
  /\ processed_records = <<>>
  /\ store \in EarlierStores
  /\ wpc = "start"
  /\ i = 0
  /\ upsert_count = 0
  /\ update_count = 0
  /\ error_count = 0
  /\ unchanged_count = 0
  /\ index_requests = <<>>
  /\ create_index_raises = 0
  /\ run = 1
  /\ prev_store = store
  /\ prev_errors = 0
  /\ last_applied = [id \in TextIDs |-> NoRecord]
  /\ submitted = <<>>
  /\ failed = {}
  /\ apc = "idle"
  /\ time_period_data = EmptyDict
  /\ InitAnalysis
  /\ InitFold
  /\ InitDash
  /\ \E rows \in [Submitters -> Inputs] :
       batches = [p \in Submitters |-> BatchOf(p, rows[p])]
  /\ inflight = batches
  /\ raised = {}

NextConcurrent ==
  \/ \E p \in Submitters : SubmitOp(p)
  \/ \E p \in Submitters : BulkWriteRaises(p)

SpecConcurrent == InitConcurrent /\ [][NextConcurrent]_vars

\* The rollup calculator on its own: lines 124-134 applied to any nested
\* tally of the time periods.
Labels == {"positive", "negative", "neutral"}

Tallies ==
  [Labels -> 0..MaxCount]
    \cup {[mixed |-> 1],
          [positive |-> 0, negative |-> 1, neutral |-> 2],
          [positive |-> 8, negative |-> 2],
          [positive |-> 10, negative |-> 40]}

StatKeys == {"morning", "night", "noon"}

InitStats ==
  /\ data = <<>>
  /\ InitWriter
  /\ apc = "time_report"
  /\ \E ks \in SUBSET StatKeys :
       \E v \in [ks -> Tallies] :
         time_period_data = [keys |-> Sorted(ks), val |-> v]
  /\ InitAnalysis
  /\ InitFold
  /\ InitDash
  /\ InitNoSubmitters

NextStats == TimeReport

SpecStats == InitStats /\ [][NextStats]_vars

\* process_aggregation_results on its own, applied to any list of rows the
\* three pipelines can return, fields of the group id missing included.
FoldRows ==
  { [id |-> << <<"time_period", "morning">>, <<"sentiment", "positive">> >>,
     count |-> 5],
    [id |-> << <<"time_period", "night">>, <<"sentiment", "negative">> >>,
     count |-> 1],
    [id |-> << <<"age", "0-30">>, <<"sentiment", "positive">> >>,
     count |-> 2],
    [id |-> << <<"age_group", "0-30">>, <<"time_period", "morning">>,
               <<"sentiment", "positive">> >>,
     count |-> 5],
    [id |-> << <<"age_group", "0-30">>, <<"sentiment", "positive">> >>,
     count |-> 3],
    [id |-> << <<"age_group", "31-60">>, <<"time_period", "night">> >>,
     count |-> 4],
    [id |-> << <<"age_group", "Unknown">> >>, count |-> 1],
    [id |-> << <<"sentiment", "neutral">> >>, count |-> 1] }

FoldInputs == UNION {[1..n -> FoldRows] : n \in 0..MaxRows}

InitFoldCall ==
  /\ data = <<>>
  /\ InitWriter
  /\ apc = "idle"
  /\ time_period_data = EmptyDict
  /\ InitAnalysis
  /\ fpc = "call"
  /\ results \in FoldInputs
  /\ data_dict = EmptyDict
  /\ InitDash
  /\ InitNoSubmitters

NextFold == CallProcessAggregationResults

SpecFold == InitFoldCall /\ [][NextFold]_vars

\* ------------------------------------------------------------ properties
\* A document without its processed_timestamp.
Fields(d) ==
  [textID |-> d.textID, text |-> d.text, sentiment |-> d.sentiment,
   Time_of_Tweet |-> d.Time_of_Tweet, Age_of_User |-> d.Age_of_User]

LastOf(k) ==
  CHOOSE j \in k..Len(df) :
    /\ df[j].textID = df[k].textID
    /\ \A l \in (j + 1)..Len(df) : df[l].textID # df[k].textID

\* C2: the collection never holds two documents with one textID; the
\* document of a textID is the record of the last upsert applied for it;
\* and after a run without a failed batch the document of every textID of
\* the input is the record built from the last input row with that textID.
C2_UniqueLastWriteWins ==
  /\ \A d1 \in store : \A d2 \in store : d1.textID = d2.textID => d1 = d2
  /\ \A id \in TextIDs :
       IF last_applied[id] = NoRecord
       THEN Matching(store, id) = {}
       ELSE Matching(store, id) = {last_applied[id]}
  /\ (wpc = "done" /\ error_count = 0) =>
       \A k \in 1..Len(df) :
         Matching(store, df[k].textID) = {processed_records[LastOf(k)]}

C2_Witness ==
  /\ wpc = "done"
  /\ error_count = 0
  /\ \E j \in 1..Len(df) : \E k \in 1..Len(df) :
       /\ j < k
       /\ LastOf(j) = k
       /\ df[j].text # df[k].text
       /\ \E d \in store : Fields(d) = df[k]
       /\ Cardinality(Matching(store, df[k].textID)) = 1

\* Number of batches of n operations, and the size of batch b of them.
NumBatches(n) == (n + batch_size - 1) \div batch_size

BatchLen(b, n) == Min(batch_size, n - (b - 1) * batch_size)

RECURSIVE SumBatchLen(_, _)
SumBatchLen(bs, n) ==
  IF bs = {} THEN 0
  ELSE LET b == CHOOSE x \in bs : TRUE
       IN BatchLen(b, n) + SumBatchLen(bs \ {b}, n)

\* While the loop runs and when it has ended: the batches were submitted once
\* each, in order; when it has ended every batch was submitted, those after
\* a failed one too; the error count is the number of records of the failed
\* batches.
SubmittedOnceInOrder ==
  wpc # "start" =>
    /\ submitted = [k \in 1..Len(submitted) |-> k]
    /\ wpc = "write" => i = batch_size * Len(submitted)
    /\ wpc = "done" => Len(submitted) = NumBatches(Len(processed_records))
    /\ failed \subseteq Range(submitted)
    /\ error_count = SumBatchLen(failed, Len(processed_records))

FailingStep == wpc = "write" /\ error_count' > error_count

\* The operations at offsets i+1 .. i+batch_size of the list, and how many
\* they are.
SubmittedBatch ==
  {processed_records[k] :
     k \in (i + 1)..Min(i + batch_size, Len(processed_records))}

SubmittedLen == Min(i + batch_size, Len(processed_records)) - i

\* C4, as stated: every batch is submitted once, failed ones are counted, and
\* a failing bulk write leaves the documents of the collection unchanged.
C4_FailedBatchAtomic ==
  [][/\ SubmittedOnceInOrder'
     /\ FailingStep => store' = store]_vars

\* C4, amended: every batch is submitted exactly once, in order, those after
\* a failed batch included; the records of a failed batch are added to the
\* error count; the failed batch is not atomic: the upserts performed before
\* the failing one stay in the collection, so the collection changes at most
\* in documents of that batch's textIDs, each then holding a record of the
\* batch, and none of them is counted as inserted or updated.
C4_FailureIsolation ==
  [][/\ SubmittedOnceInOrder'
     /\ FailingStep =>
          /\ \A d \in store' \ store : d \in SubmittedBatch
          /\ \A d \in store \ store' :
               \E r \in SubmittedBatch \cap store' : r.textID = d.textID
          /\ upsert_count' = upsert_count
          /\ update_count' = update_count
          /\ error_count' = error_count + SubmittedLen
          /\ i' = i + batch_size]_vars

C4_Witness ==
  /\ wpc = "done"
  /\ run = 1
  /\ failed = {1}
  /\ Len(submitted) = 2
  /\ processed_records[1] \in store
  /\ processed_records[2] \notin store
  /\ processed_records[Len(processed_records)] \in store
  /\ error_count = batch_size

Schemes == {"time", "age", "age_time"}

\* C5: when a run of the analysis has ended, the rollup of every scheme but
\* at most the one whose query failed has been computed and reported.
C5_FailureIsolatedPerScheme ==
  apc \in {"done", "crashed"} => Cardinality(Schemes \ reported) <= 1

TimeTallyBuilt == apc = "time_report" \/ "time" \in reported

\* C6: the by-time tally holds, for each time period and sentiment, the
\* number of documents now in the collection with that pair, and no entry
\* for a pair no document has; after writing (t1, positive, morning) and then
\* (t1, negative, night) it is exactly {night: {negative: 1}}.
C6_RollupIsSnapshot ==
  TimeTallyBuilt =>
    /\ Range(time_period_data.keys) = {d.Time_of_Tweet : d \in store}
    /\ DOMAIN time_period_data.val = {d.Time_of_Tweet : d \in store}
    /\ Len(time_period_data.keys) = Cardinality(Range(time_period_data.keys))
    /\ \A t \in DOMAIN time_period_data.val :
         /\ DOMAIN time_period_data.val[t] =
              {d.sentiment : d \in {x \in store : x.Time_of_Tweet = t}}
         /\ \A sn \in DOMAIN time_period_data.val[t] :
              time_period_data.val[t][sn] =
                Cardinality({d \in store :
                               d.Time_of_Tweet = t /\ d.sentiment = sn})
    /\ ( /\ Len(df) = 2
         /\ df[1] = [textID |-> "t1", text |-> "good",
                     sentiment |-> "positive", Time_of_Tweet |-> "morning",
                     Age_of_User |-> "21-30"]
         /\ df[2] = [textID |-> "t1", text |-> "bad",
                     sentiment |-> "negative", Time_of_Tweet |-> "night",
                     Age_of_User |-> "21-30"]
         /\ wpc = "done"
         /\ error_count = 0 )
       => time_period_data =
            [keys |-> <<"night">>, val |-> [night |-> [negative |-> 1]]]

C6_Witness ==
  /\ TimeTallyBuilt
  /\ wpc = "done"
  /\ error_count = 0
  /\ Len(df) = 2
  /\ df[1].text = "good" /\ df[1].textID = "t1"
  /\ df[2].text = "bad" /\ df[2].textID = "t1"
  /\ time_period_data.keys = <<"night">>
  /\ time_period_data.val["night"]["negative"] = 1

C6_WitnessCounted ==
  /\ TimeTallyBuilt
  /\ "morning" \in DOMAIN time_period_data.val
  /\ "positive" \in DOMAIN time_period_data.val["morning"]
  /\ time_period_data.val["morning"]["positive"] = 2

TallyTotal(t) == Get(t, "positive") + Get(t, "negative") + Get(t, "neutral")

TimeReported == "time" \in reported

\* C7: calculate_sentiment_stats returns None exactly for a tally whose
\* positive + negative + neutral count is 0, and a time period is a row of
\* the table, and an element of time_stats, exactly when its total is > 0.
C7_EmptyGroupsExcluded ==
  TimeReported =>
    /\ \A k \in Range(time_period_data.keys) :
         LET total == TallyTotal(time_period_data.val[k])
         IN /\ (calculate_sentiment_stats(time_period_data.val[k]) = None)
                 <=> (total = 0)
            /\ (\E j \in 1..Len(time_table) : time_table[j].key = k)
                 <=> (total > 0)
            /\ (\E j \in 1..Len(time_stats) : time_stats[j].period = k)
                 <=> (total > 0)
    /\ \A j \in 1..Len(time_table) : time_table[j].stats.total > 0
    /\ \A j \in 1..Len(time_stats) : time_stats[j].total > 0

C7_Witness ==
  /\ TimeReported
  /\ \E k \in Range(time_period_data.keys) :
       /\ TallyTotal(time_period_data.val[k]) = 0
       /\ \A j \in 1..Len(time_table) : time_table[j].key # k
  /\ \E k \in Range(time_period_data.keys) :
       /\ TallyTotal(time_period_data.val[k]) > 0
       /\ \E j \in 1..Len(time_table) : time_table[j].key = k

\* |f - num / den| <= 2^-20 (which is below 1e-6), for a float f < 2^32
Near(f, num, den) ==
  IF f.m = <<>> THEN num = 0
  ELSE LET k == 0 - f.e
           a == Norm(MulSmall(f.m, den, 0))
           b == ShiftLeft(Norm(<<num>>), k)
           t == ShiftLeft(<<den>>, k - 20)
       IN /\ ~BigLess(Norm(BigAdd(b, t, 0)), a)
          /\ ~BigLess(Norm(BigAdd(a, t, 0)), b)

\* positive_pct + negative_pct + neutral_pct, as Python adds them
PctSum(st) == FAdd(FAdd(st.pos_pct, st.neg_pct), st.neu_pct)

StatsOfCounts(st) ==
  /\ st.total > 0
  /\ st.pos_count = Get(time_period_data.val[st.period], "positive")
  /\ st.neg_count = Get(time_period_data.val[st.period], "negative")
  /\ st.neu_count = Get(time_period_data.val[st.period], "neutral")
  /\ st.total = st.pos_count + st.neg_count + st.neu_count
  /\ Near(st.pos_pct, 100 * st.pos_count, st.total)
  /\ Near(st.neg_pct, 100 * st.neg_count, st.total)
  /\ Near(st.neu_pct, 100 * st.neu_count, st.total)
  /\ ~FLess(FInt(100), st.pos_pct)
  /\ ~FLess(FInt(100), st.neg_pct)
  /\ ~FLess(FInt(100), st.neu_pct)

\* C8, as stated: for every tally with total > 0 the stats hold the counts,
\* their total and the percentages count/total*100, and the three
\* percentages add up to 100.
C8_PercentagesSumTo100 ==
  TimeReported =>
    \A j \in 1..Len(time_stats) :
      /\ StatsOfCounts(time_stats[j])
      /\ PctSum(time_stats[j]) = FInt(100)

\* C8, amended: the same, with the sum of the three percentages equal to 100
\* up to the rounding of the float operations (within 1e-6).
C8_PercentClosure ==
  TimeReported =>
    \A j \in 1..Len(time_stats) :
      /\ StatsOfCounts(time_stats[j])
      /\ Near(PctSum(time_stats[j]), 100, 1)

C8_Witness ==
  /\ TimeReported
  /\ \E j \in 1..Len(time_stats) :
       /\ time_stats[j].pos_count > 0
       /\ time_stats[j].neg_count > 0
       /\ time_stats[j].neu_count > 0
       /\ PctSum(time_stats[j]) # FInt(100)
       /\ Near(PctSum(time_stats[j]), 100, 1)

\* x is the element of the list that is maximal on field and has no equal
\* before it.
FirstMax(list, x, field) ==
  \E j \in 1..Len(list) :
    /\ list[j] = x
    /\ \A k \in 1..Len(list) : ~GreaterBy(list[k], list[j], field)
    /\ \A k \in 1..(j - 1) : GreaterBy(list[j], list[k], field)

\* C9: find_peaks returns None exactly for the empty list; otherwise each of
\* its four entries is the first element of the list that is maximal on
\* pos_pct, neg_pct, neu_pct and total respectively; for morning (80 %
\* positive of 10) and night (20 % of 50) the most positive is morning and
\* the most active is night.
C9_PeakSelection ==
  TimeReported =>
    /\ (peaks = None) <=> (time_stats = <<>>)
    /\ time_stats # <<>> =>
         /\ FirstMax(time_stats, peaks.most_positive, "pos_pct")
         /\ FirstMax(time_stats, peaks.most_negative, "neg_pct")
         /\ FirstMax(time_stats, peaks.most_neutral, "neu_pct")
         /\ FirstMax(time_stats, peaks.most_active, "total")
    /\ ( /\ time_period_data.keys = <<"morning", "night">>
         /\ time_period_data.val["morning"] = [positive |-> 8, negative |-> 2]
         /\ time_period_data.val["night"] = [positive |-> 10, negative |-> 40] )
       => /\ peaks.most_positive.period = "morning"
          /\ peaks.most_active.period = "night"

C9_Witness ==
  /\ TimeReported
  /\ Len(time_stats) = 3
  /\ time_stats[2].pos_pct = time_stats[3].pos_pct
  /\ FLess(time_stats[1].pos_pct, time_stats[2].pos_pct)
  /\ peaks.most_positive = time_stats[2]
  /\ peaks.most_active # time_stats[2]

C9_WitnessExample ==
  /\ TimeReported
  /\ time_period_data.keys = <<"morning", "night">>
  /\ time_period_data.val["morning"] = [positive |-> 8, negative |-> 2]
  /\ peaks.most_positive.period = "morning"
  /\ peaks.most_active.period = "night"

\* A row as a pipeline returns it when no field of the group id is missing.
WellFormed(r) ==
  \/ /\ Len(r.id) = 2
     /\ r.id[1][1] \in {"time_period", "age"}
     /\ r.id[2][1] = "sentiment"
  \/ /\ Len(r.id) = 3
     /\ r.id[1][1] = "age_group"
     /\ r.id[2][1] = "time_period"
     /\ r.id[3][1] = "sentiment"

At2(d, k1, k2) ==
  /\ k1 \in DOMAIN d.val
  /\ k2 \in DOMAIN d.val[k1]

At3(d, k1, k2, k3) ==
  /\ k1 \in DOMAIN d.val
  /\ "val" \in DOMAIN d.val[k1]
  /\ k2 \in DOMAIN d.val[k1].val
  /\ k3 \in DOMAIN d.val[k1].val[k2]

\* C3: on rows with complete group ids process_aggregation_results returns
\* without an error, with every 2-key row at result[primary][sentiment] and
\* every 3-key row at result[age_group][time_period][sentiment].
C3_ArityRouting ==
  (fpc = "returned" /\ \A r \in Range(results) : WellFormed(r)) =>
    /\ ~Raised(data_dict)
    /\ \A r \in Range(results) :
         IF Len(r.id) = 2
         THEN /\ At2(data_dict, r.id[1][2], r.id[2][2])
              /\ data_dict.val[r.id[1][2]][r.id[2][2]] = r.count
         ELSE /\ At3(data_dict, r.id[1][2], r.id[2][2], r.id[3][2])
              /\ data_dict.val[r.id[1][2]].val[r.id[2][2]][r.id[3][2]]
                   = r.count

\* C10: when process_aggregation_results returns a result, every row of the
\* three-key scheme (the one naming age_group) given to it has its three key
\* fields and sits at result[age_group][time_period][sentiment]: none was
\* put in the two-level nesting or left out.
C10_ArityOfScheme ==
  (fpc = "returned" /\ ~Raised(data_dict)) =>
    \A r \in Range(results) :
      HasField(r.id, "age_group") =>
        /\ Len(r.id) = 3
        /\ HasField(r.id, "time_period")
        /\ HasField(r.id, "sentiment")
        /\ At3(data_dict, Field(r.id, "age_group"),
               Field(r.id, "time_period"), Field(r.id, "sentiment"))

\* The record at position k repeats, value for value and in the same
\* millisecond, the record before it with the same textID.
RepeatsPrevious(k) ==
  \E j \in 1..(k - 1) :
    /\ processed_records[j].textID = processed_records[k].textID
    /\ \A l \in (j + 1)..(k - 1) :
         processed_records[l].textID # processed_records[k].textID
    /\ processed_records[j] = processed_records[k]

Repeats == {k \in 1..Len(processed_records) : RepeatsPrevious(k)}

SecondWriteEnded == wpc = "done" /\ run >= 2 /\ prev_errors = 0

\* C11, as stated: when a run without a failed batch is followed by a run on
\* the same input, the second run reports no insert, and when none of its
\* batches fails it reports no error and every record as updated.
C11_AllUpdate ==
  SecondWriteEnded =>
    /\ upsert_count = 0
    /\ failed = {} =>
         /\ error_count = 0
         /\ update_count = Len(processed_records)

\* C11, amended: the second run reports no insert, and when none of its
\* batches fails it reports no error and as updated every record but those
\* that repeat the record before them with the same textID, values and
\* millisecond: at least one record per textID, and every record when no
\* textID occurs twice in the input.
C11_SecondCallCounts ==
  SecondWriteEnded =>
    /\ upsert_count = 0
    /\ failed = {} =>
         /\ error_count = 0
         /\ update_count = Len(processed_records) - Cardinality(Repeats)
         /\ update_count >=
              Cardinality({processed_records[k].textID :
                             k \in 1..Len(processed_records)})
         /\ Repeats = {} => update_count = Len(processed_records)

C11_Witness ==
  /\ SecondWriteEnded
  /\ failed = {}
  /\ Len(processed_records) = 3
  /\ upsert_count = 0
  /\ update_count = 2
  /\ Cardinality(Repeats) = 1

\* The operations of batches 1..n, in the order of submission.
RECURSIVE SubmittedOps(_)
SubmittedOps(n) ==
  IF n = 0 THEN <<>>
  ELSE SubmittedOps(n - 1)
         \o SubSeq(processed_records, (submitted[n] - 1) * batch_size + 1,
                   Min(submitted[n] * batch_size, Len(processed_records)))

\* Every operation is in exactly one batch of at most batch_size operations,
\* in input order.
BatchesPartitionInput ==
  /\ wpc # "start" =>
       /\ submitted = [k \in 1..Len(submitted) |-> k]
       /\ SubmittedOps(Len(submitted))
            = SubSeq(processed_records, 1, Min(i, Len(processed_records)))
       /\ \A b \in 1..Len(submitted) :
            BatchLen(b, Len(processed_records)) \in 1..batch_size
  /\ wpc = "done" => SubmittedOps(Len(submitted)) = processed_records

\* The positions holding a record equal, timestamp included, to an earlier one.
Duplicates ==
  {k \in 1..Len(processed_records) :
     \E j \in 1..(k - 1) : processed_records[j] = processed_records[k]}

\* C16, as stated: the batches partition the operations in input order, and
\* when the loop has ended inserted + updated + failed is the number of
\* records.
C16_ReportConservation ==
  /\ BatchesPartitionInput
  /\ wpc = "done" =>
       upsert_count + update_count + error_count = Len(processed_records)

\* C16, amended: the batches partition the operations in input order, and
\* when the loop has ended inserted + updated + failed, plus the upserts of
\* the batches that did not fail which matched a document already holding
\* their values, is the number of records; inserted + updated + failed is
\* that number when no two records are equal in every value and built in
\* the same millisecond.
C16_ReportAccounting ==
  /\ BatchesPartitionInput
  /\ wpc = "done" =>
       /\ upsert_count + update_count + error_count + unchanged_count
            = Len(processed_records)
       /\ unchanged_count <= Cardinality(Duplicates)
       /\ Duplicates = {} =>
            upsert_count + update_count + error_count
              = Len(processed_records)

C16_Witness ==
  /\ wpc = "done"
  /\ Len(processed_records) = 3
  /\ failed = {2}
  /\ error_count = 1
  /\ upsert_count = 1
  /\ update_count = 0
  /\ unchanged_count = 1

\* C13: while the batches are submitted, the creation of the three query
\* indexes and of the unique index on textID has been requested in this run.
C13_IndexesRequestedBeforeWrite ==
  wpc = "write" => Range(index_requests) = Range(create_index)

\* The positions of the source rows with a text that is neither missing nor
\* empty and a sentiment that is not missing, and the j-th of them.
KeptIndexes ==
  {k \in 1..Len(data) :
     ~(data[k].text = Null \/ data[k].text = "" \/ data[k].sentiment = Null)}

NthKept(j) ==
  CHOOSE k \in KeptIndexes : Cardinality({l \in KeptIndexes : l <= k}) = j

\* C15: once the records are built, they are the source rows with a text
\* neither null nor empty and a non-null sentiment, in order, each with its
\* five values as loaded; the rows dropped are not counted as errors.
C15_CleaningPredicate ==
  wpc # "start" =>
    /\ Len(df) = Cardinality(KeptIndexes)
    /\ Len(processed_records) = Cardinality(KeptIndexes)
    /\ \A j \in 1..Len(processed_records) :
         /\ df[j] = data[NthKept(j)]
         /\ Fields(processed_records[j]) = data[NthKept(j)]
    /\ failed = {} => error_count = 0

C15_Witness ==
  /\ wpc = "done"
  /\ failed = {}
  /\ Len(data) = 3
  /\ data[1].sentiment = Null
  /\ data[2].text = " "
  /\ data[2].Time_of_Tweet = Null
  /\ data[3].text = ""
  /\ Len(processed_records) = 1
  /\ \E d \in store : Fields(d) = data[2]

\* ------------------------------------------------------------------ C14
AgeTallyBuilt == apc = "age_report" \/ "age" \in reported

\* The coarse group of a bracket under the fixed mapping, and Unknown for a
\* bracket that is not one of the six.
CoarseGroup(age) ==
  CASE age \in {"0-20", "21-30"} -> "0-30"
    [] age \in {"31-45", "46-60"} -> "31-60"
    [] age \in {"60-70", "70-100"} -> "61-100"
    [] OTHER -> "Unknown"

SixBrackets == {"0-20", "21-30", "31-45", "46-60", "60-70", "70-100"}

\* C14: the by-age tally holds, for each coarse age group g and sentiment s,
\* the number of stored documents with sentiment s whose Age of User maps to
\* g (0-20, 21-30 -> 0-30; 31-45, 46-60 -> 31-60; 60-70, 70-100 -> 61-100),
\* a document with any other bracket being counted under Unknown, and has no
\* entry for a pair no document has; the dashboard's records carry the same
\* group for the six brackets and the bracket itself for any other.
C14_AgeGrouping ==
  /\ AgeTallyBuilt =>
       /\ DOMAIN age_data.val = {CoarseGroup(d.Age_of_User) : d \in store}
       /\ Range(age_data.keys) = DOMAIN age_data.val
       /\ \A g \in DOMAIN age_data.val :
            /\ DOMAIN age_data.val[g] =
                 {d.sentiment :
                    d \in {x \in store : CoarseGroup(x.Age_of_User) = g}}
            /\ \A sn \in DOMAIN age_data.val[g] :
                 age_data.val[g][sn] =
                   Cardinality({d \in store :
                                  /\ CoarseGroup(d.Age_of_User) = g
                                  /\ d.sentiment = sn})
  /\ sentiment_store # None =>
       \A r \in sentiment_store.records :
         r.age_group = IF r.Age_of_User \in SixBrackets
                       THEN CoarseGroup(r.Age_of_User)
                       ELSE r.Age_of_User

\* A collection with an "80+" document: the tally counts it under Unknown,
\* the dashboard's record keeps "80+", and a mapped group has its count.
C14_Witness ==
  /\ AgeTallyBuilt
  /\ sentiment_store # None
  /\ \E d \in store : d.Age_of_User = "80+"
  /\ \E r \in sentiment_store.records :
       r.Age_of_User = "80+" /\ r.age_group = "80+"
  /\ "Unknown" \in DOMAIN age_data.val
  /\ "positive" \in DOMAIN age_data.val["Unknown"]
  /\ age_data.val["Unknown"]["positive"] = 2
  /\ "0-30" \in DOMAIN age_data.val
  /\ age_data.val["0-30"]["positive"] = 1

\* ------------------------------------------------------------------ C17
\* C17: whenever update_figures has returned, on empty data and on data
\* with records alike, its value has exactly one figure for each of the six
\* declared outputs (overall, age, time, bubble, trend, throughput).
C17_CallbackArity ==
  figures # <<>> => Len(figures) = Len(Outputs)

\* ------------------------------------------------------------------ C12
BatchIDs(b) == {b[k].textID : k \in 1..Len(b)}

Sequential(s, b1, b2) == ApplyOps(ApplyOps(s, b1).store, b2).store

AllPerformed == raised = {} /\ \A p \in Submitters : inflight[p] = <<>>

SharedIDs == BatchIDs(batches[1]) \cap BatchIDs(batches[2])

\* C12: when two batches in flight at once name no textID in common and the
\* upserts are performed one at a time, every interleaving of their requests
\* leaves the collection that submitting one batch after the other leaves;
\* when they share a textID, the document of that textID is the record of
\* the request performed last for it.
C12_ConcurrentBatches ==
  /\ (AllPerformed /\ SharedIDs = {}) =>
       /\ store = Sequential(prev_store, batches[1], batches[2])
       /\ store = Sequential(prev_store, batches[2], batches[1])
  /\ \A id \in SharedIDs :
       last_applied[id] # NoRecord =>
         Matching(store, id) = {last_applied[id]}

\* Two batches with no textID in common, one of them of two requests, all
\* performed: the collection holds a document of each textID.
C12_Witness ==
  /\ AllPerformed
  /\ SharedIDs = {}
  /\ Len(batches[1]) = 2
  /\ batches[2] # <<>>
  /\ Cardinality(store) = 2
  /\ store # prev_store

\* Two batches sharing t1, the request of the first execution performed
\* after those of the second: its record is the document of t1.
C12_WitnessShared ==
  /\ AllPerformed
  /\ "t1" \in SharedIDs
  /\ last_applied["t1"] \in Range(batches[1])
  /\ last_applied["t1"].processed_timestamp
       < batches[2][Len(batches[2])].processed_timestamp
  /\ last_applied["t1"] \in store

====
